---- MODULE Spec2Model ----
(***************************************************************************)
(* Model of lmserv's worker pool (src/lmserv/server/pool.py) and of the    *)
(* life cycle of the workers it owns.                                      *)
(*                                                                         *)
(* The pool runs on one asyncio event loop: a coroutine runs atomically    *)
(* from one await that suspends to the next, so every action below is one  *)
(* such run.  asyncio.Queue is modelled as CPython implements it: a deque  *)
(* of items, a deque of waiting getters, put_nowait() resolving the future *)
(* of the first getter, and the getter taking its item only when its task  *)
(* is resumed.                                                             *)
(*                                                                         *)
(* The repository has two worker classes.  pool.py reads                   *)
(* w.proc_control_event, w.proc, w.stop() and w.spawn().                   *)
(*   "legacy" : src/lmserv/worker.py LlamaWorker, which has exactly these  *)
(*              members (the test double of src/tests/conftest.py has      *)
(*              them too);                                                 *)
(*   "llama"  : src/lmserv/server/workers/llama.py LlamaWorker, the class  *)
(*              pool.py imports, whose event is named _ctl_event: it has   *)
(*              no attribute proc_control_event.                           *)
(* workerClass is the class bound to the name LlamaWorker in pool.py.      *)
(*                                                                         *)
(* The specifications share the variables.  Spec is the pool driven by     *)
(* the lifespan task and the requests.  SpecWorker is a client calling     *)
(* spawn() and stop() on workers.  SpecTurn is one worker with its two     *)
(* _stream_reader tasks (server/workers/utils.py), its output queue and    *)
(* the loop of infer(), driven by a client that calls spawn(), infer()     *)
(* and stop(); text is modelled as sequences of symbols.  SpecGbnf         *)
(* applies schema_to_gbnf (src/lmserv/gbnf.py) to a schema drawn from a    *)
(* bounded set of JSON schemas.  SpecChat is the /chat handler of          *)
(* src/lmserv/server/api.py and of src/lmserv/api.py, acquiring and        *)
(* releasing workers for a few requests.  SpecTurnLive and SpecLive are    *)
(* SpecTurn and Spec with the fairness of the event loop; SpecMisuse is    *)
(* Spec with callers that release workers they do not hold.                *)
(***************************************************************************)
EXTENDS Integers, Sequences, FiniteSets

\* cfg.workers, the configured worker count (default of Config.workers)
NumWorkers == 2
\* number of concurrent callers (HTTP requests in flight)
NumCallers == 2
\* number of replacement workers release() may construct
MaxRespawns == 1
\* number of shutdown() calls
MaxShutdowns == 2
\* number of stop() calls a client makes on one worker
MaxStopCalls == 2

Callers == 1..NumCallers
Wids == 1..(NumWorkers + MaxRespawns)
NoWorker == 0

VARIABLES
    workerClass,          \* class bound to LlamaWorker in pool.py
    workers,              \* WorkerPool._workers (list)
    free,                 \* WorkerPool.free: items of the asyncio.Queue
    getters,              \* WorkerPool.free: callers whose get() future is pending
    busy,                 \* WorkerPool.busy (set)
    started,              \* WorkerPool._started
    created,              \* number of worker instances constructed so far
    proc,                 \* worker.proc: "none" (None), "running", "exited" (poll() is not None)
    proc_control_event,   \* worker.proc_control_event / worker._ctl_event is set
    signals,              \* number of signals sent to the worker's process
    stopCalls,            \* number of calls of worker.stop()
    mainPc,               \* position of the task that drives start()/shutdown()
    spawning,             \* workers whose _spawn task of start() is in flight
    stopTask,             \* position of the stop() task shutdown() gathered for a worker
    cpc,                  \* position of each caller
    held,                 \* worker a caller got from acquire() and has not handed to release()
    newW,                 \* new_w of a release() that is awaiting new_w.spawn()
    startReturned,        \* start() has returned normally
    shutdownCalled,       \* shutdown() has been called
    shutdowns,            \* number of shutdown() calls that have returned
    shutRun,              \* shutdown() calls that returned since the last other pool operation
    replacement,          \* the worker release() enqueued in place of a dead one (NoWorker: none)
    restarted,            \* start() has been called on a pool whose _started was set
    spawnPc,              \* position of the spawn() call on the worker a client drives
    readyBy,              \* the stream whose line ended the ready wait of spawn() ("none": no line)
    rpc,                  \* position of the worker's _stream_reader task of each stream
    queue,                \* the worker's output queue (_queue / instance_output_queue)
    nEnq,                 \* number of events the readers have put so far
    ipc,                  \* position of the infer() call on that worker
    endCause,             \* what ended the loop of the last infer() call
    prompt,               \* argument of the last infer() call
    first_token,          \* first_token (llama) / is_prompt_echo_possible (legacy)
    yielded,              \* events whose line the last infer() call has yielded
    taken,                \* events the loop of the last infer() call has dequeued
    stdin,                \* text the last infer() call has written to the process
    turns,                \* number of infer() calls
    master_schema,        \* the schema handed to schema_to_gbnf
    gbnf_string,          \* what schema_to_gbnf returned: the lines of the grammar
    gpc,                  \* position of the caller of schema_to_gbnf
    apiModule,            \* the module whose app is served: server/api.py or api.py
    chat,                 \* each chat request: position, worker, calls made so far
    chatFree              \* the free queue of the pool the chat handlers use

turnVars == <<spawnPc, readyBy, rpc, queue, nEnq, ipc, endCause, prompt, first_token,
              yielded, taken, stdin, turns>>

gbnfVars == <<master_schema, gbnf_string, gpc>>
chatVars == <<apiModule, chat, chatFree>>

vars == <<gbnfVars, chatVars, workerClass, workers, free, getters, busy, started, created, proc,
          proc_control_event, signals, stopCalls, mainPc, spawning, stopTask,
          cpc, held, newW, startReturned, shutdownCalled, shutdowns, shutRun,
          replacement, restarted, turnVars>>

workerVars == <<proc, proc_control_event, signals, stopCalls>>
histVars == <<startReturned, shutdownCalled, shutdowns, shutRun, replacement>>

\* list(range(cfg.workers)) of WorkerPool.__init__
InitialWorkers == [i \in 1..NumWorkers |-> i]

SeqToSet(s) == {s[i] : i \in 1..Len(s)}

\* the two pipes of the process a _stream_reader reads
Streams == {"stdout", "stderr"}

InitPool ==
    /\ workerClass \in {"llama", "legacy"}
    /\ workers = InitialWorkers
    /\ free = <<>>
    /\ getters = <<>>
    /\ busy = {}
    /\ started = FALSE
    /\ created = NumWorkers
    /\ proc = [w \in Wids |-> "none"]
    /\ proc_control_event = [w \in Wids |-> FALSE]
    /\ signals = [w \in Wids |-> 0]
    /\ stopCalls = [w \in Wids |-> 0]
    /\ mainPc = "idle"
    /\ spawning = {}
    /\ stopTask = [w \in Wids |-> "none"]
    /\ cpc = [c \in Callers |-> "idle"]
    /\ held = [c \in Callers |-> NoWorker]
    /\ newW = [c \in Callers |-> NoWorker]
    /\ startReturned = FALSE
    /\ shutdownCalled = FALSE
    /\ shutdowns = 0
    /\ shutRun = 0
    /\ replacement = [w \in Wids |-> NoWorker]
    /\ restarted = FALSE
    /\ spawnPc = "none"
    /\ readyBy = "none"
    /\ rpc = [s \in Streams |-> "off"]
    /\ queue = <<>>
    /\ nEnq = 0
    /\ ipc = "idle"
    /\ endCause = "none"
    /\ prompt = <<>>
    /\ first_token = FALSE
    /\ yielded = <<>>
    /\ taken = <<>>
    /\ stdin = <<>>
    /\ turns = 0

\* a schema node: a dict.  type is schema.get("type") ("absent": None, and
\* "integer" for a value the converter does not know); properties is
\* schema.get("properties", {}) as the sequence of its items; hasEnum,
\* hasOneOf, hasRef say whether the keys "enum", "oneOf", "$ref" are there
Node(type, hasEnum, enum, properties, hasOneOf, oneOf, hasRef, ref) ==
    [type |-> type, hasEnum |-> hasEnum, enum |-> enum,
     properties |-> properties, hasOneOf |-> hasOneOf, oneOf |-> oneOf,
     hasRef |-> hasRef, ref |-> ref]

Typed(type) == Node(type, FALSE, <<>>, <<>>, FALSE, <<>>, FALSE, <<>>)

\* no caller of schema_to_gbnf
InitGbnfIdle ==
    /\ master_schema = Typed("absent")
    /\ gbnf_string = <<>>
    /\ gpc = "idle"

\* number of chat requests
NumRequests == 3

Requests == 1..NumRequests

\* no chat request has arrived
ChatIdle ==
    [r \in Requests |-> [pc |-> "idle", outcome |-> "none", worker |-> NoWorker,
                         turn |-> 0, acquires |-> 0, infers |-> 0, releases |-> 0]]

InitChatIdle ==
    /\ apiModule = "server"
    /\ chat = ChatIdle
    /\ chatFree = InitialWorkers

Init ==
    /\ InitPool
    /\ InitGbnfIdle
    /\ InitChatIdle

(***************************************************************************)
(* asyncio.Queue                                                           *)
(***************************************************************************)

\* Queue.put_nowait(w): append the item, then _wakeup_next(_getters) resolves
\* the future of the first waiting getter.  pcs is cpc after the running
\* task's own move.
FreePut(w, pcs) ==
    /\ free' = Append(free, w)
    /\ IF getters # <<>>
          THEN /\ getters' = Tail(getters)
               /\ cpc' = [pcs EXCEPT ![Head(getters)] = "woken"]
          ELSE /\ getters' = getters
               /\ cpc' = pcs

\* TakeFree with the item left in the queue
TakeFreeNoPop(c) ==
    /\ free' = free
    /\ busy' = busy \cup {Head(free)}
    /\ held' = [held EXCEPT ![c] = Head(free)]
    /\ cpc' = [cpc EXCEPT ![c] = "holding"]
    /\ UNCHANGED getters

\* Queue.get() when the queue is not empty: get_nowait() pops the head; then
\* acquire() adds it to busy and returns it.
TakeFree(c) ==
    /\ free' = Tail(free)
    /\ busy' = busy \cup {Head(free)}
    /\ held' = [held EXCEPT ![c] = Head(free)]
    /\ cpc' = [cpc EXCEPT ![c] = "holding"]
    /\ UNCHANGED getters

\* Queue.get() when the queue is empty: a future is appended to _getters and
\* the caller suspends.
WaitFree(c) ==
    /\ getters' = Append(getters, c)
    /\ cpc' = [cpc EXCEPT ![c] = "waiting"]
    /\ UNCHANGED <<free, busy, held>>

(***************************************************************************)
(* WorkerPool.acquire                                                      *)
(***************************************************************************)

\* acquire() is called: w = await self.free.get(); self.busy.add(w)
Acquire(c) ==
    /\ startReturned
    /\ cpc[c] = "idle"
    /\ IF free # <<>> THEN TakeFree(c) ELSE WaitFree(c)
    /\ shutRun' = 0
    /\ UNCHANGED <<workerClass, restarted, turnVars, gbnfVars, chatVars, workers, started, created, workerVars, mainPc,
                   spawning, stopTask, newW, startReturned, shutdownCalled,
                   shutdowns, replacement>>

\* the task of a getter whose future was resolved runs again: the loop
\* `while self.empty()` of Queue.get() is evaluated anew
AcquireResume(c) ==
    /\ cpc[c] = "woken"
    /\ IF free # <<>> THEN TakeFree(c) ELSE WaitFree(c)
    /\ shutRun' = 0
    /\ UNCHANGED <<workerClass, restarted, turnVars, gbnfVars, chatVars, workers, started, created, workerVars, mainPc,
                   spawning, stopTask, newW, startReturned, shutdownCalled,
                   shutdowns, replacement>>

(***************************************************************************)
(* LlamaWorker.stop, LlamaWorker.spawn, LlamaWorker.infer as the pool sees *)
(* them: their effect on proc and on the control event                     *)
(***************************************************************************)

\* stop() reaches an await that suspends.  llama: `if not self.proc: return`,
\* otherwise it always awaits asyncio.to_thread(self.proc.wait).  legacy: it
\* waits for the process only in the branch `self.proc and self.proc.poll()
\* is None`; its wait for the cancelled reader tasks changes nothing the pool
\* reads and is not a step of its own.
StopSuspends(w) ==
    IF workerClass = "llama" THEN proc[w] # "none" ELSE proc[w] = "running"

\* llama returns at once when proc is None and leaves the event alone; every
\* other path starts with <event>.set()
CtlAfterStopFirst(w) ==
    IF workerClass = "llama" /\ proc[w] = "none"
       THEN proc_control_event[w] ELSE TRUE

\* SignalsAfterStopFirst without the early return on a cleared handle
SignalsAfterStopFirstBlind(w) ==
    signals[w] + 1

\* self.proc.send_signal(SIGINT): Popen.send_signal polls first and sends
\* nothing to a process that has exited
SignalsAfterStopFirst(w) ==
    IF proc[w] = "running" THEN signals[w] + 1 ELSE signals[w]

\* a stop() that does not suspend ends with self.proc = None (legacy) or
\* found it None already (llama)
ProcAfterStopFirst(w) ==
    IF StopSuspends(w) THEN proc[w] ELSE "none"

\* the run of stop() from its call to its first suspension (or to its return),
\* for every worker of S
StopFirst(S) ==
    /\ proc' = [w \in Wids |-> IF w \in S THEN ProcAfterStopFirst(w) ELSE proc[w]]
    /\ proc_control_event' =
           [w \in Wids |-> IF w \in S THEN CtlAfterStopFirst(w)
                                      ELSE proc_control_event[w]]
    /\ signals' = [w \in Wids |-> IF w \in S THEN SignalsAfterStopFirst(w)
                                             ELSE signals[w]]
    /\ stopCalls' = [w \in Wids |-> IF w \in S THEN stopCalls[w] + 1
                                               ELSE stopCalls[w]]

\* the awaits of stop() on the process: after SIGINT ("waiting"), after
\* terminate() ("terminating"), after kill() ("killing")
StopStages == {"waiting", "terminating", "killing"}

\* StopLast leaving the handle in place when the kill stage was reached
StopLastKeepsKilled(w) ==
    /\ proc' = [proc EXCEPT ![w] = IF stopTask[w] = "killing" THEN @ ELSE "none"]
    /\ UNCHANGED <<proc_control_event, signals, stopCalls>>

\* the run of stop() after the process wait: self.proc = None
StopLast(w) ==
    /\ proc' = [proc EXCEPT ![w] = "none"]
    /\ UNCHANGED <<proc_control_event, signals, stopCalls>>

\* spawn() returned: the process is running and ready.  legacy spawn() starts
\* with self.proc_control_event.clear(); llama spawn() does not touch the event.
SpawnOk(w) ==
    /\ proc' = [proc EXCEPT ![w] = "running"]
    /\ proc_control_event' =
           [proc_control_event EXCEPT ![w] =
               IF workerClass = "legacy" THEN FALSE ELSE @]
    /\ UNCHANGED <<signals, stopCalls>>

\* spawn() raised: before Popen (proc stays None), or after it with the
\* process still running (ready timeout) or gone (premature exit, EOF)
SpawnRaise(w, p) ==
    /\ proc' = [proc EXCEPT ![w] = p]
    /\ proc_control_event' =
           [proc_control_event EXCEPT ![w] =
               IF workerClass = "legacy" THEN FALSE ELSE @]
    /\ UNCHANGED <<signals, stopCalls>>

\* the worker the pool would find unstable: line 111 of pool.py
Unstable(w) ==
    proc_control_event[w] \/ proc[w] = "none" \/ proc[w] = "exited"

(***************************************************************************)
(* WorkerPool.start                                                        *)
(***************************************************************************)

StartCallAlways ==
    /\ mainPc = "idle"
    /\ restarted' = (restarted \/ started)
    /\ IF workers = <<>>
          THEN /\ started' = TRUE
               /\ startReturned' = TRUE
               /\ shutRun' = 0
               /\ UNCHANGED <<spawning, mainPc>>
          ELSE /\ spawning' = SeqToSet(workers)
               /\ mainPc' = "starting"
               /\ shutRun' = 0
               /\ UNCHANGED <<started, startReturned>>
    /\ UNCHANGED <<workerClass, turnVars, gbnfVars, chatVars, workers, free, getters, busy, created,
                   workerVars, stopTask, cpc, held, newW, shutdownCalled,
                   shutdowns, replacement>>

\* start() is called.  Already started: warning, return.  Otherwise one
\* _spawn(w) task per worker is gathered; with no worker the gather is done
\* at once and _started is set.
StartCall ==
    /\ mainPc = "idle"
    /\ IF started
          THEN /\ restarted' = TRUE
               /\ UNCHANGED <<started, spawning, mainPc, startReturned, shutRun>>
          ELSE IF workers = <<>>
                  THEN /\ started' = TRUE
                       /\ startReturned' = TRUE
                       /\ shutRun' = 0
                       /\ UNCHANGED <<spawning, mainPc, restarted>>
                  ELSE /\ spawning' = SeqToSet(workers)
                       /\ mainPc' = "starting"
                       /\ shutRun' = 0
                       /\ UNCHANGED <<started, startReturned, restarted>>
    /\ UNCHANGED <<workerClass, turnVars, gbnfVars, chatVars, workers, free, getters, busy, created,
                   workerVars, stopTask, cpc, held, newW, shutdownCalled,
                   shutdowns, replacement>>

\* _spawn(w): await w.spawn() returned; await self.free.put(w)
SpawnDone(w) ==
    /\ w \in spawning
    /\ SpawnOk(w)
    /\ FreePut(w, cpc)
    /\ spawning' = spawning \ {w}
    /\ shutRun' = 0
    /\ UNCHANGED <<workerClass, restarted, turnVars, gbnfVars, chatVars, workers, busy, started, created, mainPc,
                   stopTask, held, newW, startReturned, shutdownCalled,
                   shutdowns, replacement>>

\* _spawn(w): w.spawn() raised.  gather() hands the first exception to
\* start(), which raises with _started still False; the other _spawn tasks
\* are not cancelled.
SpawnFail(w) ==
    /\ w \in spawning
    /\ \E p \in {"none", "running", "exited"} : SpawnRaise(w, p)
    /\ spawning' = spawning \ {w}
    /\ mainPc' = IF mainPc = "starting" THEN "failed" ELSE mainPc
    /\ UNCHANGED <<workerClass, restarted, turnVars, gbnfVars, chatVars, workers, free, getters, busy, started, created,
                   stopTask, cpc, held, newW, histVars>>

StartReturnEarly ==
    /\ mainPc = "starting"
    /\ started' = TRUE
    /\ startReturned' = TRUE
    /\ mainPc' = "idle"
    /\ shutRun' = 0
    /\ UNCHANGED <<workerClass, restarted, turnVars, gbnfVars, chatVars, workers, free, getters, busy, created,
                   workerVars, spawning, stopTask, cpc, held, newW,
                   shutdownCalled, shutdowns, replacement>>

\* every _spawn task is done: self._started = True; start() returns
StartReturn ==
    /\ mainPc = "starting"
    /\ spawning = {}
    /\ started' = TRUE
    /\ startReturned' = TRUE
    /\ mainPc' = "idle"
    /\ shutRun' = 0
    /\ UNCHANGED <<workerClass, restarted, turnVars, gbnfVars, chatVars, workers, free, getters, busy, created,
                   workerVars, spawning, stopTask, cpc, held, newW,
                   shutdownCalled, shutdowns, replacement>>

(***************************************************************************)
(* WorkerPool.shutdown                                                     *)
(***************************************************************************)

\* ShutdownClear without busy.clear()
ShutdownClearKeepBusy ==
    /\ workers' = <<>>
    /\ free' = <<>>
    /\ busy' = busy
    /\ started' = FALSE

\* ShutdownClear without _workers.clear()
ShutdownClearKeepWorkers ==
    /\ workers' = workers
    /\ free' = <<>>
    /\ busy' = {}
    /\ started' = FALSE

\* lines 81-88: _workers.clear(), drain free, busy.clear(), _started = False
ShutdownClear ==
    /\ workers' = <<>>
    /\ free' = <<>>
    /\ busy' = {}
    /\ started' = FALSE

\* shutdown() is called: gather(*[w.stop() for w in self._workers]).  With no
\* worker the gather is done at once and shutdown() runs to its end.
ShutdownCall ==
    /\ mainPc = "idle"
    /\ shutdowns < MaxShutdowns
    /\ shutdownCalled' = TRUE
    /\ IF workers = <<>>
          THEN /\ ShutdownClear
               /\ shutdowns' = shutdowns + 1
               /\ shutRun' = shutRun + 1
               /\ UNCHANGED <<mainPc, stopTask>>
          ELSE /\ stopTask' = [w \in Wids |->
                                 IF w \in SeqToSet(workers) THEN "ready"
                                                            ELSE stopTask[w]]
               /\ mainPc' = "gathered"
               /\ UNCHANGED <<workers, free, busy, started, shutdowns, shutRun>>
    /\ UNCHANGED <<workerClass, restarted, turnVars, gbnfVars, chatVars, getters, created, workerVars, spawning, cpc,
                   held, newW, startReturned, replacement>>

\* the gathered stop() tasks were made ready together, so they run one after
\* the other, each up to its first suspension
ShutdownStops ==
    /\ mainPc = "gathered"
    /\ LET S == {w \in Wids : stopTask[w] = "ready"} IN
          /\ StopFirst(S)
          /\ stopTask' = [w \in Wids |->
                            IF w \in S
                               THEN (IF StopSuspends(w) THEN "waiting" ELSE "none")
                               ELSE stopTask[w]]
    /\ mainPc' = "stopping"
    /\ UNCHANGED <<workerClass, restarted, turnVars, gbnfVars, chatVars, workers, free, getters, busy, started, created,
                   spawning, cpc, held, newW, histVars>>

\* a gathered stop() resumes after the process wait and returns
ShutStopEnd(w) ==
    /\ stopTask[w] \in StopStages
    /\ StopLast(w)
    /\ stopTask' = [stopTask EXCEPT ![w] = "none"]
    /\ UNCHANGED <<workerClass, restarted, turnVars, gbnfVars, chatVars, workers, free, getters, busy, started, created,
                   mainPc, spawning, cpc, held, newW, histVars>>

\* every gathered stop() is done: shutdown() runs to its end
ShutdownFinish ==
    /\ mainPc = "stopping"
    /\ \A w \in Wids : stopTask[w] = "none"
    /\ ShutdownClear
    /\ mainPc' = "idle"
    /\ shutdowns' = shutdowns + 1
    /\ shutRun' = shutRun + 1
    /\ UNCHANGED <<workerClass, restarted, turnVars, gbnfVars, chatVars, getters, created, workerVars, spawning,
                   stopTask, cpc, held, newW, startReturned, shutdownCalled,
                   replacement>>

(***************************************************************************)
(* What happens to a worker while a caller holds it                        *)
(***************************************************************************)

\* the wrapped process exits on its own
ProcExit(w) ==
    /\ proc[w] = "running"
    /\ proc' = [proc EXCEPT ![w] = "exited"]
    /\ UNCHANGED <<workerClass, restarted, turnVars, gbnfVars, chatVars, workers, free, getters, busy, started, created,
                   proc_control_event, signals, stopCalls, mainPc, spawning,
                   stopTask, cpc, held, newW, histVars>>

\* one turn of infer() on the held worker, reduced to what it leaves in the
\* control event.  llama: the turn needs a running process and its `finally`
\* sets _ctl_event.  legacy: the turn needs a running process and an unset
\* event, and sets the event when it ends by EOF, reader error or silence
\* before the first token (err), not when it ends by the sentinel.
Infer(c) ==
    /\ cpc[c] = "holding"
    /\ proc[held[c]] = "running"
    /\ IF workerClass = "llama"
          THEN proc_control_event' = [proc_control_event EXCEPT ![held[c]] = TRUE]
          ELSE /\ ~proc_control_event[held[c]]
               /\ \E err \in BOOLEAN :
                     proc_control_event' =
                         [proc_control_event EXCEPT ![held[c]] = err]
    /\ UNCHANGED <<workerClass, restarted, turnVars, gbnfVars, chatVars, workers, free, getters, busy, started, created,
                   proc, signals, stopCalls, mainPc, spawning, stopTask, cpc,
                   held, newW, histVars>>

(***************************************************************************)
(* WorkerPool.release                                                      *)
(***************************************************************************)

\* PutBack without self.busy.remove(w)
PutBackKeepBusy(c, w) ==
    /\ busy' = busy
    /\ FreePut(w, [cpc EXCEPT ![c] = "idle"])
    /\ held' = [held EXCEPT ![c] = NoWorker]

\* lines 123-125 for a worker w that passed the health check:
\* if w in self.busy: self.busy.remove(w); await self.free.put(w)
PutBack(c, w) ==
    /\ busy' = busy \ {w}
    /\ FreePut(w, [cpc EXCEPT ![c] = "idle"])
    /\ held' = [held EXCEPT ![c] = NoWorker]

\* line 119-120: new_w = LlamaWorker(self._cfg); await new_w.spawn()
Construct(c) ==
    /\ created' = created + 1
    /\ newW' = [newW EXCEPT ![c] = created + 1]
    /\ cpc' = [cpc EXCEPT ![c] = "rel_spawn"]

\* release(w) on the class of workers/llama.py: evaluating
\* w.proc_control_event raises AttributeError before anything is changed;
\* the exception leaves release() and the caller's handler
ReleaseRaise(c) ==
    /\ cpc[c] = "holding"
    /\ workerClass = "llama"
    /\ cpc' = [cpc EXCEPT ![c] = "idle"]
    /\ held' = [held EXCEPT ![c] = NoWorker]
    /\ UNCHANGED <<workerClass, restarted, turnVars, gbnfVars, chatVars, workers, free, getters, busy, started, created,
                   workerVars, mainPc, spawning, stopTask, newW, histVars>>

\* release(w) of a worker that passes the health check of line 111
ReleaseHealthy(c) ==
    /\ cpc[c] = "holding"
    /\ workerClass = "legacy"
    /\ ~Unstable(held[c])
    /\ PutBack(c, held[c])
    /\ shutRun' = 0
    /\ UNCHANGED <<workerClass, restarted, turnVars, gbnfVars, chatVars, workers, started, created, workerVars, mainPc,
                   spawning, stopTask, newW, startReturned, shutdownCalled,
                   shutdowns, replacement>>

\* releases that are inside w.stop() and will construct a worker next
StopsInRelease == Cardinality({c \in Callers : cpc[c] = "rel_stop"})

\* release(w) of a worker that fails the health check: await w.stop(); when
\* stop() does not suspend, release() goes on to construct new_w and to
\* await new_w.spawn()
ReleaseUnstable(c) ==
    /\ cpc[c] = "holding"
    /\ workerClass = "legacy"
    /\ Unstable(held[c])
    /\ created + StopsInRelease < NumWorkers + MaxRespawns
    /\ StopFirst({held[c]})
    /\ IF StopSuspends(held[c])
          THEN /\ cpc' = [cpc EXCEPT ![c] = "rel_stop"]
               /\ UNCHANGED <<created, newW>>
          ELSE Construct(c)
    /\ UNCHANGED <<workerClass, restarted, turnVars, gbnfVars, chatVars, workers, free, getters, busy, started, mainPc,
                   spawning, stopTask, held, histVars>>

\* w.stop() inside release() resumes after the process wait and returns;
\* release() constructs new_w and awaits new_w.spawn()
ReleaseStopEnd(c) ==
    /\ cpc[c] = "rel_stop"
    /\ StopLast(held[c])
    /\ Construct(c)
    /\ UNCHANGED <<workerClass, restarted, turnVars, gbnfVars, chatVars, workers, free, getters, busy, started, mainPc,
                   spawning, stopTask, held, histVars>>

\* new_w.spawn() returned: w = new_w; `if w in self.busy` is false for the
\* new worker, so busy is left as it is; await self.free.put(w)
ReleaseSpawnDone(c) ==
    /\ cpc[c] = "rel_spawn"
    /\ SpawnOk(newW[c])
    /\ FreePut(newW[c], [cpc EXCEPT ![c] = "idle"])
    /\ replacement' = [replacement EXCEPT ![held[c]] = newW[c]]
    /\ held' = [held EXCEPT ![c] = NoWorker]
    /\ newW' = [newW EXCEPT ![c] = NoWorker]
    /\ shutRun' = 0
    /\ UNCHANGED <<workerClass, restarted, turnVars, gbnfVars, chatVars, workers, busy, started, created, mainPc,
                   spawning, stopTask, startReturned, shutdownCalled,
                   shutdowns>>

\* new_w.spawn() raised: the exception leaves release()
ReleaseSpawnFail(c) ==
    /\ cpc[c] = "rel_spawn"
    /\ \E p \in {"none", "running", "exited"} : SpawnRaise(newW[c], p)
    /\ cpc' = [cpc EXCEPT ![c] = "idle"]
    /\ held' = [held EXCEPT ![c] = NoWorker]
    /\ newW' = [newW EXCEPT ![c] = NoWorker]
    /\ UNCHANGED <<workerClass, restarted, turnVars, gbnfVars, chatVars, workers, free, getters, busy, started, created,
                   mainPc, spawning, stopTask, histVars>>

(***************************************************************************)
(* The pool driven by the lifespan of the HTTP layer and by its requests   *)
(***************************************************************************)

Next ==
    \/ StartCall
    \/ \E w \in Wids : SpawnDone(w)
    \/ \E w \in Wids : SpawnFail(w)
    \/ StartReturn
    \/ ShutdownCall
    \/ ShutdownStops
    \/ \E w \in Wids : ShutStopEnd(w)
    \/ ShutdownFinish
    \/ \E c \in Callers : Acquire(c)
    \/ \E c \in Callers : AcquireResume(c)
    \/ \E w \in Wids : ProcExit(w)
    \/ \E c \in Callers : Infer(c)
    \/ \E c \in Callers : ReleaseRaise(c)
    \/ \E c \in Callers : ReleaseHealthy(c)
    \/ \E c \in Callers : ReleaseUnstable(c)
    \/ \E c \in Callers : ReleaseStopEnd(c)
    \/ \E c \in Callers : ReleaseSpawnDone(c)
    \/ \E c \in Callers : ReleaseSpawnFail(c)

Spec == Init /\ [][Next]_vars

TypeOK ==
    /\ workerClass \in {"llama", "legacy"}
    /\ busy \subseteq Wids
    /\ created \in NumWorkers..(NumWorkers + MaxRespawns)
    /\ \A w \in Wids : signals[w] <= 3 * stopCalls[w]
    /\ stopTask \in [Wids -> {"none", "ready"} \cup StopStages]

(***************************************************************************)
(* One client driving the workers directly: spawn(), stop(), stop() again  *)
(***************************************************************************)

\* a client calls spawn() on a worker that was never spawned nor stopped
ClientSpawn(w) ==
    /\ proc[w] = "none"
    /\ stopCalls[w] = 0
    /\ \/ SpawnOk(w)
       \/ \E p \in {"none", "running", "exited"} : SpawnRaise(w, p)
    /\ UNCHANGED <<workerClass, restarted, turnVars, gbnfVars, chatVars, workers, free, getters, busy, started, created,
                   mainPc, spawning, stopTask, cpc, held, newW, histVars>>

\* a client calls stop() on a worker on which no stop() is running
ClientStop(w) ==
    /\ stopTask[w] = "none"
    /\ stopCalls[w] < MaxStopCalls
    /\ StopFirst({w})
    /\ stopTask' = [stopTask EXCEPT ![w] =
                       IF StopSuspends(w) THEN "waiting" ELSE "none"]
    /\ UNCHANGED <<workerClass, restarted, turnVars, gbnfVars, chatVars, workers, free, getters, busy, started, created,
                   mainPc, spawning, cpc, held, newW, histVars>>

\* the wait of a stage of stop() ends without the process being gone for
\* stop(): wait(timeout=5) or wait(timeout=3) raises TimeoutExpired on a
\* process that still runs, or the stage raises on a process that has
\* exited; the handler sends the next signal (terminate(), then kill();
\* nothing is sent to a process that has exited) and waits again
StopEscalate(w) ==
    /\ stopTask[w] \in {"waiting", "terminating"}
    /\ proc[w] # "none"
    /\ signals' = [signals EXCEPT ![w] = IF proc[w] = "running" THEN @ + 1 ELSE @]
    /\ stopTask' = [stopTask EXCEPT ![w] =
                       IF @ = "waiting" THEN "terminating" ELSE "killing"]
    /\ UNCHANGED <<workerClass, restarted, turnVars, gbnfVars, chatVars, workers, free, getters, busy,
                   started, created, proc, proc_control_event, stopCalls, mainPc,
                   spawning, cpc, held, newW, histVars>>

NextWorker ==
    \/ \E w \in Wids : ClientSpawn(w)
    \/ \E w \in Wids : ProcExit(w)
    \/ \E w \in Wids : ClientStop(w)
    \/ \E w \in Wids : StopEscalate(w)
    \/ \E w \in Wids : ShutStopEnd(w)

SpecWorker == Init /\ [][NextWorker]_vars

(***************************************************************************)
(* Properties of the pool                                                  *)
(***************************************************************************)

\* process running and control signal unset
Healthy(w) == proc[w] = "running" /\ ~proc_control_event[w]

\* the workers the pool owns: the configured ones and the replacements
\* release() enqueued
PoolWorkers ==
    (1..NumWorkers) \cup ({replacement[w] : w \in Wids} \ {NoWorker})

\* C1: once start() has returned and until shutdown() is called, the number
\* of workers in free plus the number of workers in busy is the configured
\* worker count, whatever acquire() and release() calls were made.
PoolSizeInvariant ==
    (startReturned /\ ~shutdownCalled)
        => Len(free) + Cardinality(busy) = NumWorkers

\* C2: no worker is held by two callers at once: acquire() never returns a
\* worker that an earlier acquire() returned and that was not released.
AtMostOneHolder ==
    \A c, d \in Callers :
        (held[c] # NoWorker /\ held[c] = held[d]) => c = d

TwoHolders ==
    \E c, d \in Callers :
        c # d /\ held[c] # NoWorker /\ held[d] # NoWorker

\* C3: no worker is in the free queue and in the busy set at the same time.
FreeBusyDisjoint ==
    SeqToSet(free) \cap busy = {}

FreeAndBusyNonEmpty ==
    free # <<>> /\ busy # {} /\ \E c \in Callers : cpc[c] = "idle" /\ shutdowns = 0

\* C4: release(w) of a worker whose process has exited or whose control
\* signal is set stops w and goes on to construct and spawn a new worker;
\* what release() then enqueues is that new worker, never w; and no
\* acquire() hands out a worker that was replaced.
ReleaseReplacesDeadWorker ==
    [][\A c \in Callers :
          /\ (cpc[c] = "holding" /\ Unstable(held[c]) /\ cpc'[c] # "holding")
                => /\ cpc'[c] \in {"rel_stop", "rel_spawn"}
                   /\ stopCalls'[held[c]] = stopCalls[held[c]] + 1
          /\ (cpc[c] = "rel_spawn" /\ cpc'[c] = "idle" /\ free' # free)
                => /\ free' = Append(free, newW[c])
                   /\ newW[c] # held[c]
          /\ (cpc[c] # "holding" /\ cpc'[c] = "holding")
                => replacement[held'[c]] = NoWorker]_vars

\* C5: acquire() moves the head of free into busy and returns it; release(w)
\* of a healthy worker takes w out of busy and appends that same w to the
\* tail of free.
AcquireReleaseMovesWorker ==
    [][\A c \in Callers :
          /\ (cpc[c] # "holding" /\ cpc'[c] = "holding")
                => /\ free # <<>>
                   /\ free' = Tail(free)
                   /\ held'[c] = Head(free)
                   /\ busy' = busy \cup {Head(free)}
          /\ (cpc[c] = "holding" /\ Healthy(held[c]) /\ cpc'[c] = "idle")
                => /\ free' = Append(free, held[c])
                   /\ busy' = busy \ {held[c]}
                   /\ held[c] \notin busy']_vars

\* C6: when shutdown() has returned, free is empty, busy is empty and the
\* pool's size (the length of its worker list) is 0.
ShutdownLeavesPoolEmpty ==
    shutRun >= 1 => (free = <<>> /\ busy = {} /\ Len(workers) = 0)

ShutdownWithWorkerHeld ==
    shutRun >= 1 /\ \E c \in Callers : held[c] # NoWorker

\* C7: when shutdown() has returned, no process of a worker of the pool
\* (configured or enqueued by release() as a replacement) is still running.
ShutdownStopsEveryWorker ==
    shutRun >= 1 => \A w \in PoolWorkers : proc[w] # "running"

\* C8: a shutdown() called right after a shutdown() returned returns at once
\* and changes nothing: free, busy, the worker list and the started flag
\* stay as they are, and stop() is called on no worker.
ShutdownTwiceChangesNothing ==
    [][(shutRun >= 1 /\ mainPc = "idle"
          /\ (mainPc' = "gathered" \/ shutdowns' # shutdowns))
        => /\ mainPc' = "idle"
           /\ UNCHANGED <<free, busy, workers, started, stopTask, proc,
                          proc_control_event, signals, stopCalls>>]_vars

ShutdownCalledTwiceInARow ==
    shutRun >= 2

\* C10: a caller that calls acquire() gets a worker only if no caller that
\* called acquire() earlier is still waiting for one.
AcquireFifoAcrossWaiters ==
    [][\A c \in Callers :
          (cpc[c] = "idle" /\ cpc'[c] = "holding")
              => \A d \in Callers : cpc[d] \notin {"waiting", "woken"}]_vars

\* C9: stop() called on a worker on which an earlier stop() has returned
\* returns at once and changes nothing: the process handle stays cleared,
\* the control event is as it was and no signal is sent to any process.
StopOnStoppedWorkerChangesNothing ==
    [][\A w \in Wids :
          (stopCalls[w] >= 1 /\ stopTask[w] = "none" /\ proc[w] = "none"
             /\ stopCalls'[w] > stopCalls[w])
              => /\ proc'[w] = "none"
                 /\ stopTask'[w] = "none"
                 /\ proc_control_event' = proc_control_event
                 /\ signals' = signals]_vars

StoppedTwiceAfterRunning ==
    \E w \in Wids :
        /\ workerClass = "llama"
        /\ stopCalls[w] >= 2
        /\ signals[w] = 1
        /\ proc[w] = "none"
        /\ stopTask[w] = "none"

(***************************************************************************)
(* Start-up and replacement                                                *)
(***************************************************************************)

\* C11: when the start() that launched the spawns returns, every configured
\* worker has completed spawn() and been put into free, free holds exactly
\* the configured number of workers, busy is empty and the pool is started.
StartReturnsWithAllWorkersFree ==
    [][(mainPc = "starting" /\ mainPc' = "idle")
        => /\ started'
           /\ Len(free') = NumWorkers
           /\ SeqToSet(free') = SeqToSet(workers')
           /\ workers' = InitialWorkers
           /\ spawning' = {}
           /\ busy' = {}]_vars

StartedWithFullFreeQueue ==
    /\ startReturned
    /\ shutdowns = 0
    /\ mainPc = "idle"
    /\ Len(free) = NumWorkers
    /\ busy = {}
    /\ \A w \in SeqToSet(InitialWorkers) : proc[w] = "running"

FailedStartStopsSpawnedWorkers ==
    mainPc = "failed"
        => /\ ~started
           /\ ~startReturned
           /\ \A w \in SeqToSet(free) : proc[w] # "running"

\* C16: a release() of a worker whose process has died returns normally
\* (no exception reaches the caller) and ends with a new worker, whose
\* process is running, appended to free.
ReleaseOfDeadWorkerReturnsNormally ==
    [][\A c \in Callers :
          (/\ \/ cpc[c] = "holding" /\ proc[held[c]] = "exited"
              \/ cpc[c] = "rel_spawn"
           /\ cpc'[c] = "idle")
              => \E n \in Wids :
                    /\ n # held[c]
                    /\ proc'[n] = "running"
                    /\ Len(free') >= 1
                    /\ free'[Len(free')] = n]_vars

(***************************************************************************)
(* Text.  A string is a sequence of symbols: "x" is an ordinary character, *)
(* "sp" a space, "nl" a line feed; a literal the code compares with is one *)
(* symbol ("SENT" the reverse prompt <|LMSERV_USER_INPUT_START|>, "ERR"    *)
(* the prefix ERROR_READER, "RDY" a ready marker, "USER" the text User:,   *)
(* "TOOL" the text Tool Result:, "SYS" the system prompt).                 *)
(***************************************************************************)

White == {"sp", "nl"}

RECURSIVE LStrip(_)
LStrip(s) ==
    IF s = <<>> THEN <<>>
    ELSE IF Head(s) \in White THEN LStrip(Tail(s)) ELSE s

RECURSIVE RStrip(_)
RStrip(s) ==
    IF s = <<>> THEN <<>>
    ELSE IF s[Len(s)] \in White THEN RStrip(SubSeq(s, 1, Len(s) - 1)) ELSE s

\* str.strip()
Strip(s) == RStrip(LStrip(s))

\* str.split('\n')[0]
RECURSIVE FirstLine(_)
FirstLine(s) ==
    IF s = <<>> \/ Head(s) = "nl" THEN <<>>
    ELSE <<Head(s)>> \o FirstLine(Tail(s))

\* number of line terminators in a text
RECURSIVE CountNl(_)
CountNl(s) ==
    IF s = <<>> THEN 0
    ELSE (IF Head(s) = "nl" THEN 1 ELSE 0) + CountNl(Tail(s))

\* "\n".join(h)
RECURSIVE JoinNl(_)
JoinNl(h) ==
    IF h = <<>> THEN <<>>
    ELSE IF Len(h) = 1 THEN h[1]
    ELSE h[1] \o <<"nl">> \o JoinNl(Tail(h))

REVERSE_PROMPT == <<"SENT">>

\* any(marker in line for marker in READY_MARKERS)
IsReady(line) == \E i \in 1..Len(line) : line[i] = "RDY"

\* line.startswith("ERROR_READER")
IsReaderError(line) == line # <<>> /\ Head(line) = "ERR"

\* the prompts chat() passes to infer(): the conversation history, which
\* starts with f"User: {req.prompt}" and grows by one "Tool Result: ..."
\* entry per tool turn, joined with "\n"
ReqTexts == {<<"x", "sp">>}
Histories ==
    {<< <<"USER", "sp">> \o t >> : t \in ReqTexts}
        \cup {<< <<"USER", "sp">> \o t, <<"TOOL", "sp", "x">> >> : t \in ReqTexts}
HttpPrompts == {JoinNl(h) : h \in Histories}

\* what infer() writes to stdin.  llama: f"{system_prompt}\n\nUser:
\* {prompt.strip()}" followed by os.linesep; legacy: prompt.strip() + "\n"
LlamaWrite(p) == <<"SYS", "nl", "nl", "USER", "sp">> \o Strip(p) \o <<"nl">>
LegacyWrite(p) == Strip(p) \o <<"nl">>

\* the lines the process prints on a stream, as readline().rstrip("\n")
\* hands them over: text, the reverse prompt (bare and indented), the echo
\* of a prompt, a ready banner
OutLines(s) ==
    IF s = "stdout"
       THEN {<<"x">>, <<"SENT">>, <<"sp", "SENT">>, <<"USER", "sp", "x">>, <<"RDY">>}
       ELSE {<<"x">>, <<"RDY">>}

(***************************************************************************)
(* One worker driven by a client: spawn(), infer(), stop(), with the two   *)
(* _stream_reader tasks feeding its queue                                  *)
(***************************************************************************)

\* number of events the readers put
MaxEvents == 3
\* number of infer() calls
MaxTurns == 2

\* the worker the client drives
Driven == 1

\* what this part of the model leaves alone
poolVars == <<workerClass, restarted, workers, free, getters, busy, started,
              created, mainPc, spawning, cpc, held, newW, histVars>>

\* an item of the queue: (stream_name, line), line None at EOF; n numbers
\* the items in the order they were put, turn is the infer() call whose loop
\* was running when the item was put (0: none was)
Event(s, isEof, l) ==
    [n |-> nEnq + 1, stream |-> s, eof |-> isEof, line |-> l,
     turn |-> IF ipc = "loop" THEN turns ELSE 0]

\* self.instance_output_queue is not None (legacy): set at the end of
\* spawn(), cleared by stop()
HasQueue == spawnPc = "done" /\ stopCalls[Driven] = 0

\* spawn() up to its first await.  llama: Popen, a new queue, the two reader
\* tasks, then _wait_ready().  legacy: proc_control_event.clear(), Popen,
\* then the wait for the ready marker on readers and a queue local to spawn()
TurnSpawnBegin ==
    /\ spawnPc = "none"
    /\ proc[Driven] = "none"
    /\ stopCalls[Driven] = 0
    /\ proc' = [proc EXCEPT ![Driven] = "running"]
    /\ spawnPc' = "waiting"
    /\ IF workerClass = "llama"
          THEN /\ queue' = <<>>
               /\ rpc' = [s \in Streams |-> "reading"]
               /\ UNCHANGED proc_control_event
          ELSE /\ proc_control_event' = [proc_control_event EXCEPT ![Driven] = FALSE]
               /\ UNCHANGED <<queue, rpc>>
    /\ UNCHANGED <<poolVars, gbnfVars, chatVars, signals, stopCalls, stopTask, readyBy, nEnq, ipc,
                   endCause, prompt, first_token, yielded, taken, stdin, turns>>

\* llama _wait_ready() from the item its queue.get() handed over to its next
\* suspension.  An item with line None raises; a line holding a ready marker
\* returns, whatever its stream and without another look at the process;
\* any other line is dropped and the loop starts over: a process that has
\* exited makes it raise (after emptying the queue), an empty queue suspends
\* it, and with items left queue.get() returns at once.
RECURSIVE WaitReadyFrom(_)
WaitReadyFrom(q) ==
    LET e == Head(q) IN
    IF e.eof THEN [pc |-> "failed", q |-> Tail(q), by |-> "none"]
    ELSE IF IsReady(e.line) THEN [pc |-> "done", q |-> Tail(q), by |-> e.stream]
    ELSE IF proc[Driven] # "running" THEN [pc |-> "failed", q |-> <<>>, by |-> "none"]
    ELSE IF Tail(q) = <<>> THEN [pc |-> "waiting", q |-> <<>>, by |-> "none"]
    ELSE WaitReadyFrom(Tail(q))

\* the task of spawn() runs again after its queue.get() got an item
TurnWaitReady ==
    /\ workerClass = "llama"
    /\ spawnPc = "waiting"
    /\ queue # <<>>
    /\ LET r == WaitReadyFrom(queue) IN
          /\ spawnPc' = r.pc
          /\ queue' = r.q
          /\ readyBy' = r.by
    /\ UNCHANGED <<poolVars, gbnfVars, chatVars, workerVars, stopTask, rpc, nEnq, ipc, endCause,
                   prompt, first_token, yielded, taken, stdin, turns>>

\* the ready timeout elapses while spawn() waits on an empty queue (llama:
\* wait_for(..., timeout=600) cancels _wait_ready(); legacy: the while loop
\* of 45 s ends): spawn() raises and leaves the process as it is
TurnReadyTimeout ==
    /\ spawnPc = "waiting"
    /\ queue = <<>>
    /\ spawnPc' = "failed"
    /\ UNCHANGED <<poolVars, gbnfVars, chatVars, workerVars, stopTask, readyBy, rpc, queue, nEnq, ipc,
                   endCause, prompt, first_token, yielded, taken, stdin, turns>>

\* legacy spawn() after its wait.  The ready marker was seen on a line
\* tagged stderr_spawn, the only lines it is looked for in: a new
\* instance_output_queue and the two instance readers.  The process died
\* first: spawn() raises and leaves self.proc as it is.
TurnSpawnEndLegacy ==
    /\ workerClass = "legacy"
    /\ spawnPc = "waiting"
    /\ IF proc[Driven] = "running"
          THEN /\ spawnPc' = "done"
               /\ readyBy' = "stderr"
               /\ queue' = <<>>
               /\ rpc' = [s \in Streams |-> "reading"]
          ELSE /\ spawnPc' = "failed"
               /\ UNCHANGED <<readyBy, queue, rpc>>
    /\ UNCHANGED <<poolVars, gbnfVars, chatVars, workerVars, stopTask, nEnq, ipc, endCause, prompt,
                   first_token, yielded, taken, stdin, turns>>

\* ReaderLine putting the item at the head of the queue
ReaderLinePrepend(s, l) ==
    /\ rpc[s] = "reading"
    /\ spawnPc # "failed"
    /\ proc[Driven] = "running"
    /\ nEnq < MaxEvents
    /\ queue' = <<Event(s, FALSE, l)>> \o queue
    /\ nEnq' = nEnq + 1
    /\ rpc' = [rpc EXCEPT ![s] =
                  IF proc_control_event[Driven] THEN "done" ELSE "reading"]
    /\ UNCHANGED <<poolVars, gbnfVars, chatVars, workerVars, stopTask, spawnPc, readyBy, ipc, endCause,
                   prompt, first_token, yielded, taken, stdin, turns>>

\* _stream_reader: readline() returned a line.  The reader puts
\* (stream_name, line.rstrip("\n")) and tests the event before it reads
\* again; with the event set it ends (its finally sets the event again).
\* The readers of a worker whose spawn() raised are not followed: the pool
\* drops such a worker and nothing takes from its queue.
ReaderLine(s, l) ==
    /\ rpc[s] = "reading"
    /\ spawnPc # "failed"
    /\ proc[Driven] = "running"
    /\ nEnq < MaxEvents
    /\ queue' = Append(queue, Event(s, FALSE, l))
    /\ nEnq' = nEnq + 1
    /\ rpc' = [rpc EXCEPT ![s] =
                  IF proc_control_event[Driven] THEN "done" ELSE "reading"]
    /\ UNCHANGED <<poolVars, gbnfVars, chatVars, workerVars, stopTask, spawnPc, readyBy, ipc, endCause,
                   prompt, first_token, yielded, taken, stdin, turns>>

\* ReaderEof without the break: the reader reads on after EOF
ReaderEofNoBreak(s) ==
    /\ rpc[s] = "reading"
    /\ spawnPc # "failed"
    /\ proc[Driven] = "exited"
    /\ nEnq < MaxEvents
    /\ queue' = Append(queue, Event(s, TRUE, <<>>))
    /\ nEnq' = nEnq + 1
    /\ UNCHANGED <<poolVars, gbnfVars, chatVars, workerVars, stopTask, spawnPc, readyBy, rpc, ipc,
                   endCause, prompt, first_token, yielded, taken, stdin, turns>>

\* _stream_reader: readline() returned "" (the process closed the pipe).
\* The reader puts (stream_name, None) and ends; its finally sets the event.
ReaderEof(s) ==
    /\ rpc[s] = "reading"
    /\ spawnPc # "failed"
    /\ proc[Driven] = "exited"
    /\ nEnq < MaxEvents
    /\ queue' = Append(queue, Event(s, TRUE, <<>>))
    /\ nEnq' = nEnq + 1
    /\ rpc' = [rpc EXCEPT ![s] = "done"]
    /\ proc_control_event' = [proc_control_event EXCEPT ![Driven] = TRUE]
    /\ UNCHANGED <<poolVars, gbnfVars, chatVars, proc, signals, stopCalls, stopTask, spawnPc, readyBy, ipc,
                   endCause, prompt, first_token, yielded, taken, stdin, turns>>

\* ReaderError without the finally clause
ReaderErrorQuiet(s) ==
    /\ rpc[s] = "reading"
    /\ spawnPc # "failed"
    /\ nEnq < MaxEvents
    /\ IF proc_control_event[Driven]
          THEN UNCHANGED <<queue, nEnq>>
          ELSE /\ queue' = Append(queue, Event(s, FALSE, <<"ERR", "x">>))
               /\ nEnq' = nEnq + 1
    /\ rpc' = [rpc EXCEPT ![s] = "done"]
    /\ UNCHANGED <<poolVars, gbnfVars, chatVars, workerVars, stopTask, spawnPc, readyBy, ipc,
                   endCause, prompt, first_token, yielded, taken, stdin, turns>>

\* _stream_reader: readline() raised.  With the event unset the reader puts
\* (stream_name, "ERROR_READER: ..."); it ends and its finally sets the event.
ReaderError(s) ==
    /\ rpc[s] = "reading"
    /\ spawnPc # "failed"
    /\ nEnq < MaxEvents
    /\ IF proc_control_event[Driven]
          THEN UNCHANGED <<queue, nEnq>>
          ELSE /\ queue' = Append(queue, Event(s, FALSE, <<"ERR", "x">>))
               /\ nEnq' = nEnq + 1
    /\ rpc' = [rpc EXCEPT ![s] = "done"]
    /\ proc_control_event' = [proc_control_event EXCEPT ![Driven] = TRUE]
    /\ UNCHANGED <<poolVars, gbnfVars, chatVars, proc, signals, stopCalls, stopTask, spawnPc, readyBy, ipc,
                   endCause, prompt, first_token, yielded, taken, stdin, turns>>

\* the test at the head of infer().  llama: `not self.proc or
\* self.proc.poll() is not None` raises.  legacy: that, or
\* proc_control_event set, or no instance_output_queue.
Operational ==
    IF workerClass = "llama"
       THEN proc[Driven] = "running"
       ELSE proc[Driven] = "running" /\ ~proc_control_event[Driven] /\ HasQueue

\* infer(prompt) from its call to its first queue.get().  A worker that is
\* not operational makes it raise before anything else.  llama: clears the
\* event, empties the queue, writes the full prompt.  legacy: writes the
\* stripped prompt.
InferCall(p) ==
    /\ ipc # "loop"
    /\ turns < MaxTurns
    /\ turns' = turns + 1
    /\ prompt' = p
    /\ yielded' = <<>>
    /\ taken' = <<>>
    /\ endCause' = "none"
    /\ IF ~Operational
          THEN /\ ipc' = "raised"
               /\ stdin' = <<>>
               /\ first_token' = FALSE
               /\ UNCHANGED <<queue, proc_control_event>>
          ELSE /\ ipc' = "loop"
               /\ first_token' = TRUE
               /\ IF workerClass = "llama"
                     THEN /\ proc_control_event' =
                                 [proc_control_event EXCEPT ![Driven] = FALSE]
                          /\ queue' = <<>>
                          /\ stdin' = LlamaWrite(p)
                     ELSE /\ stdin' = LegacyWrite(p)
                          /\ UNCHANGED <<queue, proc_control_event>>
    /\ UNCHANGED <<poolVars, gbnfVars, chatVars, proc, signals, stopCalls, stopTask, spawnPc, readyBy, rpc, nEnq>>

\* LlamaVerdict with the sentinel test removed
LlamaVerdictNoSentinel(e, first, p) ==
    IF e.eof THEN "eof"
    ELSE IF IsReaderError(e.line) THEN "error"
    ELSE IF e.stream = "stderr" THEN "skip"
    ELSE IF first /\ Strip(e.line) = Strip(p) THEN "echo"
    ELSE "yield"

\* what the loop of llama infer() does with a dequeued item, in the order
\* of its tests
LlamaVerdict(e, first, p) ==
    IF e.eof THEN "eof"
    ELSE IF IsReaderError(e.line) THEN "error"
    ELSE IF e.stream = "stderr" THEN "skip"
    ELSE IF first /\ Strip(e.line) = Strip(p) THEN "echo"
    ELSE IF Strip(e.line) = REVERSE_PROMPT THEN "sentinel"
    ELSE "yield"

\* LegacyVerdict with the stderr test removed
LegacyVerdictNoStderr(e, first, p) ==
    IF e.eof THEN "eof"
    ELSE IF IsReaderError(e.line) THEN "error"
    ELSE IF e.line = Strip(<<"nl">> \o REVERSE_PROMPT \o <<"nl">>) THEN "sentinel"
    ELSE IF first /\ Strip(e.line) = Strip(FirstLine(Strip(p))) THEN "echo"
    ELSE "yield"

\* what the loop of legacy infer() does with a dequeued item: the sentinel is
\* compared with reverse_prompt_marker.strip() before the echo test, and the
\* echo test compares with the first line of the prompt
LegacyVerdict(e, first, p) ==
    IF e.eof THEN "eof"
    ELSE IF IsReaderError(e.line) THEN "error"
    ELSE IF e.stream = "stderr" THEN "skip"
    ELSE IF e.line = Strip(<<"nl">> \o REVERSE_PROMPT \o <<"nl">>) THEN "sentinel"
    ELSE IF first /\ Strip(e.line) = Strip(FirstLine(Strip(p))) THEN "echo"
    ELSE "yield"

Verdict(e) ==
    IF workerClass = "llama" THEN LlamaVerdict(e, first_token, prompt)
                             ELSE LegacyVerdict(e, first_token, prompt)

\* the flag after an item: llama clears first_token when it yields; legacy
\* clears is_prompt_echo_possible at the first stdout line that reaches the
\* echo test
FirstAfter(v) ==
    IF workerClass = "llama"
       THEN first_token /\ v # "yield"
       ELSE first_token /\ v \notin {"echo", "yield"}

\* the event when the loop has ended.  llama: `finally: _ctl_event.set()`.
\* legacy: set at EOF, at a reader error and at a timeout before the first
\* yielded line.
CtlAfterTurn(cause, ys) ==
    IF workerClass = "llama" THEN TRUE
    ELSE IF cause \in {"eof", "error"} THEN TRUE
    ELSE IF cause = "timeout" /\ ys = <<>> THEN TRUE
    ELSE proc_control_event[Driven]

\* one round of the loop of infer(): queue.get() hands over the oldest item;
\* the item ends the loop, is dropped, or is yielded; a loop that goes on
\* tests the event (`while not <event>.is_set()`)
InferStep ==
    /\ ipc = "loop"
    /\ queue # <<>>
    /\ LET e == Head(queue)
           v == Verdict(e)
           ys == IF v = "yield" THEN Append(yielded, e) ELSE yielded
           cause == IF v \in {"eof", "error", "sentinel"} THEN v
                    ELSE IF proc_control_event[Driven] THEN "event"
                    ELSE "none"
       IN  /\ queue' = Tail(queue)
           /\ taken' = Append(taken, e)
           /\ yielded' = ys
           /\ first_token' = FirstAfter(v)
           /\ endCause' = cause
           /\ ipc' = IF cause = "none" THEN "loop" ELSE "ended"
           /\ proc_control_event' =
                  [proc_control_event EXCEPT ![Driven] =
                      IF cause = "none" THEN @ ELSE CtlAfterTurn(cause, ys)]
    /\ UNCHANGED <<poolVars, gbnfVars, chatVars, proc, signals, stopCalls, stopTask, spawnPc, readyBy, rpc,
                   nEnq, prompt, stdin, turns>>

\* InferTimeout ending the loop only after the first fragment
InferTimeoutAfterFirstToken ==
    /\ ipc = "loop"
    /\ queue = <<>>
    /\ yielded # <<>>
    /\ ipc' = "ended"
    /\ endCause' = "timeout"
    /\ proc_control_event' =
           [proc_control_event EXCEPT ![Driven] = CtlAfterTurn("timeout", yielded)]
    /\ UNCHANGED <<poolVars, gbnfVars, chatVars, proc, signals, stopCalls, stopTask, spawnPc, readyBy, rpc,
                   queue, nEnq, prompt, first_token, yielded, taken, stdin, turns>>

\* wait_for(queue.get(), timeout) ran out on an empty queue: the loop ends
InferTimeout ==
    /\ ipc = "loop"
    /\ queue = <<>>
    /\ ipc' = "ended"
    /\ endCause' = "timeout"
    /\ proc_control_event' =
           [proc_control_event EXCEPT ![Driven] = CtlAfterTurn("timeout", yielded)]
    /\ UNCHANGED <<poolVars, gbnfVars, chatVars, proc, signals, stopCalls, stopTask, spawnPc, readyBy, rpc,
                   queue, nEnq, prompt, first_token, yielded, taken, stdin, turns>>

\* the one stop() on the driven worker, up to its first suspension.  llama with a
\* process handle, and legacy always: the reader tasks are cancelled;
\* legacy also empties and drops instance_output_queue.
TurnStop ==
    /\ stopTask[Driven] = "none"
    /\ stopCalls[Driven] = 0
    /\ spawnPc # "waiting"
    /\ StopFirst({Driven})
    /\ stopTask' = [stopTask EXCEPT ![Driven] =
                       IF StopSuspends(Driven) THEN "waiting" ELSE "none"]
    /\ rpc' = IF workerClass = "llama" /\ proc[Driven] = "none"
                 THEN rpc
                 ELSE [s \in Streams |-> IF rpc[s] = "reading" THEN "done" ELSE rpc[s]]
    /\ queue' = IF workerClass = "legacy" THEN <<>> ELSE queue
    /\ UNCHANGED <<poolVars, gbnfVars, chatVars, spawnPc, readyBy, nEnq, ipc, endCause, prompt, first_token,
                   yielded, taken, stdin, turns>>

\* what line 111 of pool.py finds on a worker handed to release(): the
\* attribute lookup raises on the llama class; otherwise the worker is dead
\* (to be replaced) or healthy
ReleaseObserves(w) ==
    IF workerClass = "llama" THEN "raises"
    ELSE IF Unstable(w) THEN "dead" ELSE "healthy"

NextTurn ==
    \/ TurnSpawnBegin
    \/ TurnWaitReady
    \/ TurnReadyTimeout
    \/ TurnSpawnEndLegacy
    \/ \E s \in Streams : \E l \in OutLines(s) : ReaderLine(s, l)
    \/ \E s \in Streams : ReaderEof(s)
    \/ \E s \in Streams : ReaderError(s)
    \/ \E p \in HttpPrompts : InferCall(p)
    \/ InferStep
    \/ InferTimeout
    \/ TurnStop
    \/ ShutStopEnd(Driven)
    \/ ProcExit(Driven)

SpecTurn == Init /\ [][NextTurn]_vars

TypeOKTurn ==
    /\ spawnPc \in {"none", "waiting", "done", "failed"}
    /\ rpc \in [Streams -> {"off", "reading", "done"}]
    /\ nEnq \in 0..MaxEvents
    /\ Len(queue) <= MaxEvents
    /\ \A i \in 1..Len(queue) :
          /\ queue[i].n \in 1..MaxEvents
          /\ queue[i].stream \in Streams
          /\ queue[i].eof \in BOOLEAN
    /\ ipc \in {"idle", "loop", "ended", "raised"}
    /\ endCause \in {"none", "eof", "error", "sentinel", "event", "timeout"}
    /\ prompt \in HttpPrompts \cup {<<>>}
    /\ first_token \in BOOLEAN
    /\ turns \in 0..MaxTurns
    /\ \A i \in 1..Len(yielded) : yielded[i].stream \in Streams
    /\ Len(taken) <= MaxEvents

(***************************************************************************)
(* infer()                                                                 *)
(***************************************************************************)

\* C14: an infer() called on a worker whose spawn() has not completed (not
\* called yet, or still waiting for the ready marker), or on which stop()
\* has returned, raises the not-operational error, writes nothing to stdin
\* and yields nothing.
InferOnUnreadyWorkerRaises ==
    [][(/\ turns' = turns + 1
        /\ \/ spawnPc \in {"none", "waiting"}
           \/ stopCalls[Driven] >= 1 /\ stopTask[Driven] = "none")
        => /\ ipc' = "raised"
           /\ stdin' = <<>>
           /\ yielded' = <<>>]_vars

\* C15: an infer() called on a worker that is not alive (its process is
\* not running, or its control event is set) is rejected, also when the
\* process is still running.
InferRejectsWhenControlSignalSet ==
    [][(/\ turns' = turns + 1
        /\ \/ proc[Driven] # "running"
           \/ proc_control_event[Driven])
        => ipc' = "raised"]_vars

\* C17: when the loop of infer() has ended at an EOF item or at a reader
\* error marker, that item is the last one dequeued, nothing put after it
\* was yielded, the control event is set, and release() finds the worker
\* dead (and so replaces it).
TurnEndedByEofMarksWorkerDead ==
    (ipc = "ended" /\ endCause \in {"eof", "error"})
        => /\ taken # <<>>
           /\ LET last == taken[Len(taken)]
              IN  /\ last.eof \/ IsReaderError(last.line)
                  /\ \A i \in 1..Len(yielded) : yielded[i].n < last.n
           /\ proc_control_event[Driven]
           /\ ReleaseObserves(Driven) = "dead"

\* C18: a stdout line equal to the end-of-turn sentinel that the loop of
\* infer() dequeues ends the turn: it is the last item dequeued, it is not
\* yielded, and no item put after it is yielded by that call.
SentinelEndsTurn ==
    \A i \in 1..Len(taken) :
        (taken[i].stream = "stdout" /\ ~taken[i].eof
           /\ taken[i].line = REVERSE_PROMPT)
            => /\ i = Len(taken)
               /\ ipc = "ended"
               /\ endCause = "sentinel"
               /\ \A j \in 1..Len(yielded) : yielded[j].n < taken[i].n

SentinelEndedTurnWithLineBehind ==
    /\ ipc = "ended"
    /\ endCause = "sentinel"
    /\ yielded # <<>>
    /\ queue # <<>>
    /\ Head(queue).stream = "stdout"
    /\ ~Head(queue).eof

\* C19: every fragment infer() has yielded is a stdout line that the loop
\* of this call dequeued, never a stderr item nor an EOF, and the fragments
\* are yielded in the order in which they were put into the queue.
StderrNeverYielded ==
    /\ \A i \in 1..Len(yielded) :
          /\ yielded[i].stream = "stdout"
          /\ ~yielded[i].eof
          /\ \E j \in 1..Len(taken) : taken[j] = yielded[i]
    /\ \A i, j \in 1..Len(yielded) : i < j => yielded[i].n < yielded[j].n

StderrLineBetweenTwoFragments ==
    /\ Len(yielded) = 2
    /\ \E j \in 1..Len(taken) :
          /\ taken[j].stream = "stderr"
          /\ ~taken[j].eof
          /\ yielded[1].n < taken[j].n
          /\ taken[j].n < yielded[2].n

\* C20: what an infer() call that passed the operational test has written
\* to stdin is exactly one line: it ends with the (stripped) prompt followed
\* by a line terminator, and holds no other line terminator.
InferWritesOneLine ==
    ipc \in {"loop", "ended"}
        => /\ Len(stdin) > Len(Strip(prompt))
           /\ stdin[Len(stdin)] = "nl"
           /\ SubSeq(stdin, Len(stdin) - Len(Strip(prompt)), Len(stdin) - 1)
                  = Strip(prompt)
           /\ CountNl(stdin) = 1

(***************************************************************************)
(* gbnf.py: schema_to_gbnf.  Text is modelled as sequences of symbols, a    *)
(* rule name as the symbols of the string, a right-hand side as the        *)
(* sequence of its blank-separated tokens, the grammar as its lines.       *)
(***************************************************************************)

\* what the converter and the chat handlers leave alone
restVars == <<poolVars, workerVars, stopTask, turnVars>>

\* most properties of one object / most branches of one oneOf
MaxProps == 2
MaxBranches == 2

\* a token of a right-hand side: a quoted literal, a rule name, a
\* punctuation mark, or one of the fixed right-hand sides
Lit(v) == [t |-> "lit", v |-> v]
Ref(n) == [t |-> "ref", v |-> n]
Sym(x) == [t |-> "sym", v |-> <<x>>]
Fixed(x) == [t |-> "fixed", v |-> <<x>>]

\* f'"\\"{val}\\""': the value between escaped quotes, as a literal
Quoted(val) == Lit(<<"q">> \o val \o <<"q">>)

\* str(i) for the index of a oneOf branch
Digits == <<"0", "1", "2", "3", "4", "5", "6", "7", "8", "9">>

\* f"{name}-{prop_name}" and f"{name}-oneof-{i}"
PropRuleName(name, prop_name) == name \o <<"-">> \o prop_name
SubRuleName(name, i) == name \o <<"-", "oneof", "-", Digits[i + 1]>>

EnumString(enum) == Node("string", TRUE, enum, <<>>, FALSE, <<>>, FALSE, <<>>)
Object(properties) == Node("object", FALSE, <<>>, properties, FALSE, <<>>, FALSE, <<>>)
OneOf(subs) == Node("absent", FALSE, <<>>, <<>>, TRUE, subs, FALSE, <<>>)
RefTo(ref) == Node("absent", FALSE, <<>>, <<>>, FALSE, <<>>, TRUE, ref)

\* the schemas the converter is applied to: leaves, objects and oneOf nodes
\* over small leaves, and objects over all of these.  The keys of one dict
\* are distinct; a key may hold a hyphen.  The schema handed in is a dict;
\* the schema of a property may be any JSON value.
PropNames == {<<"a">>, <<"b">>, <<"a", "-", "b">>}
EnumLists == {<<>>, <<<<"a">>, <<"b">>>>, <<<<"b">>, <<"a">>>>}
\* a node that is no dict: the schemas true and false of JSON Schema
NotADict == Typed("nodict")
LeafSchemas ==
    {Typed(t) : t \in {"string", "number", "boolean", "integer", "absent"}}
       \cup {EnumString(e) : e \in EnumLists}
       \cup {RefTo(<<"#", "/", "defs", "/", "a">>)}
SmallSchemas == {Typed("string"), Typed("integer")}
PropertyLists(names, kids, most) ==
    UNION {{p \in [1..k -> [name : names, schema : kids]] :
               \A i, j \in 1..k : i # j => p[i].name # p[j].name} : k \in 0..most}
InnerSchemas ==
    {Object(p) : p \in PropertyLists({<<"b">>}, SmallSchemas \cup {Typed("number")}, 1)}
       \cup {OneOf(s) : s \in UNION {[1..k -> SmallSchemas] : k \in 0..MaxBranches}}
Schemas ==
    LeafSchemas \cup InnerSchemas
       \cup {Object(p) : p \in PropertyLists(PropNames,
                   LeafSchemas \cup InnerSchemas \cup {NotADict}, MaxProps)}

\* `name in rules`, rules[name], and rules[name] = rhs on a dict that keeps
\* insertion order: a new key goes to the end, a known key keeps its place;
\* nothing is set once an exception is on its way out
HasRule(rules, name) == \E i \in 1..Len(rules) : rules[i].name = name
RuleOf(rules, name) == rules[CHOOSE i \in 1..Len(rules) : rules[i].name = name].rhs
SetRule(st, name, rhs) ==
    IF st.raised THEN st
    ELSE IF HasRule(st.rules, name)
       THEN [st EXCEPT !.rules =
                [i \in 1..Len(st.rules) |->
                    IF st.rules[i].name = name THEN [name |-> name, rhs |-> rhs]
                                               ELSE st.rules[i]]]
       ELSE [st EXCEPT !.rules = Append(st.rules, [name |-> name, rhs |-> rhs])]

\* sep.join(parts) for parts that are token sequences
RECURSIVE Join(_, _)
Join(sep, parts) ==
    IF parts = <<>> THEN <<>>
    ELSE IF Len(parts) = 1 THEN parts[1]
    ELSE parts[1] \o sep \o Join(sep, Tail(parts))

\* EnumRhs with the values in reverse order
EnumRhsReversed(enum) ==
    Join(<<Sym("|")>>, [i \in 1..Len(enum) |-> <<Quoted(enum[Len(enum) + 1 - i])>>])

\* " | ".join(f'"\\"{val}\\""' for val in schema["enum"])
EnumRhs(enum) ==
    Join(<<Sym("|")>>, [i \in 1..Len(enum) |-> <<Quoted(enum[i])>>])

\* the rule of an object: '"{"', " ( " + ' "," '.join(prop_rules) + " )? ",
\* '"}"', with kv_rule = f'"\\"{prop_name}\\"" ":" {prop_rule_name}'
ObjectRhs(name, properties) ==
    <<Lit(<<"{">>), Sym("(")>>
       \o Join(<<Lit(<<",">>)>>,
               [i \in 1..Len(properties) |->
                   <<Quoted(properties[i].name), Lit(<<":">>),
                     Ref(PropRuleName(name, properties[i].name))>>])
       \o <<Sym(")?"), Lit(<<"}">>)>>

\* " | ".join(one_of_rules)
OneOfRhs(name, subs) ==
    Join(<<Sym("|")>>, [i \in 1..Len(subs) |-> <<Ref(SubRuleName(name, i - 1))>>])

\* schema["$ref"].split("/")[-1]
RECURSIVE LastSegment(_)
LastSegment(ref) ==
    IF \E i \in 1..Len(ref) : ref[i] = "/"
       THEN LastSegment(Tail(ref))
       ELSE ref

\* the right-hand side of a node that has no sub-rules: string (with or
\* without enum), number, boolean, $ref, and "null" for everything else
LeafRhs(schema) ==
    IF schema.type = "string"
       THEN (IF schema.hasEnum THEN EnumRhs(schema.enum) ELSE <<Fixed("string")>>)
    ELSE IF schema.type = "number" THEN <<Fixed("number")>>
    ELSE IF schema.type = "boolean" THEN <<Fixed("boolean")>>
    ELSE IF schema.hasRef THEN <<Ref(LastSegment(schema.ref))>>
    ELSE <<Fixed("null")>>

\* _convert_schema(name, schema, rules), with st the rules so far and
\* whether an exception is on its way out.  It returns at once for a name
\* that has a rule; schema.get raises AttributeError on a node that is no
\* dict; an object converts its properties in order, then sets its own
\* rule; a oneOf node (of no known type) converts its branches, then sets
\* its own rule; every other node sets its rule
RECURSIVE _convert_schema(_, _, _)
RECURSIVE ConvertProperties(_, _, _)
RECURSIVE ConvertBranches(_, _, _, _)
_convert_schema(name, schema, st) ==
    IF st.raised \/ HasRule(st.rules, name) THEN st
    ELSE IF schema.type = "nodict" THEN [st EXCEPT !.raised = TRUE]
    ELSE IF schema.type = "object"
       THEN SetRule(ConvertProperties(name, schema.properties, st),
                    name, ObjectRhs(name, schema.properties))
    ELSE IF schema.type \notin {"string", "number", "boolean"} /\ schema.hasOneOf
       THEN SetRule(ConvertBranches(name, schema.oneOf, 0, st),
                    name, OneOfRhs(name, schema.oneOf))
    ELSE SetRule(st, name, LeafRhs(schema))

\* the loop over properties.items()
ConvertProperties(name, properties, st) ==
    IF properties = <<>> THEN st
    ELSE ConvertProperties(name, Tail(properties),
             _convert_schema(PropRuleName(name, properties[1].name),
                             properties[1].schema, st))

\* the loop over enumerate(schema["oneOf"]) from index i on
ConvertBranches(name, subs, i, st) ==
    IF subs = <<>> THEN st
    ELSE ConvertBranches(name, Tail(subs), i + 1,
             _convert_schema(SubRuleName(name, i), subs[1], st))

\* schema_to_gbnf(schema): the rules of the conversion under the name root,
\* one line `name ::= rule` each, in insertion order
schema_to_gbnf(s) == _convert_schema(<<"root">>, s, [rules |-> <<>>, raised |-> FALSE])

\* a caller applies schema_to_gbnf to its schema
Compile ==
    /\ gpc = "idle"
    /\ LET st == schema_to_gbnf(master_schema) IN
          /\ gbnf_string' = IF st.raised THEN <<>> ELSE st.rules
          /\ gpc' = IF st.raised THEN "raised" ELSE "done"
    /\ UNCHANGED <<restVars, chatVars, master_schema>>

NextGbnf == Compile

InitGbnf ==
    /\ InitPool
    /\ InitChatIdle
    /\ workerClass = "llama"
    /\ master_schema \in Schemas
    /\ gbnf_string = <<>>
    /\ gpc = "idle"

SpecGbnf == InitGbnf /\ [][NextGbnf]_vars

(***************************************************************************)
(* The two chat handlers: server/api.py (served by cli.py) answers after   *)
(* the turns have run; api.py (served by __main__.py) returns a            *)
(* StreamingResponse over a generator that runs the turn                   *)
(***************************************************************************)

\* max_turns of chat() in server/api.py
max_turns == 5

ChatSet(r, pc, outcome, worker, turn, acquires, infers, releases) ==
    [chat EXCEPT ![r] = [pc |-> pc, outcome |-> outcome, worker |-> worker,
                         turn |-> turn, acquires |-> acquires,
                         infers |-> infers, releases |-> releases]]

\* worker = await pool.acquire(): the handler goes on once the pool has a
\* free worker.  server/api.py enters its try block; api.py defines the
\* generator streamer() and returns StreamingResponse(streamer()): nothing
\* of the generator has run yet.
ChatAcquire(r) ==
    /\ chat[r].pc = "idle"
    /\ chatFree # <<>>
    /\ chatFree' = Tail(chatFree)
    /\ chat' = ChatSet(r, IF apiModule = "server" THEN "turn" ELSE "responded",
                       "none", Head(chatFree), 0, chat[r].acquires + 1, 0, 0)
    /\ UNCHANGED <<restVars, gbnfVars, apiModule>>

\* server/api.py: one round of `for turn in range(max_turns)`: the handler
\* consumes worker.infer(prompt).  A tool call appends to the history and
\* continues while rounds are left; a final answer, output that is no JSON,
\* the last round, and an exception (of infer(), or CancelledError) leave
\* the try block, whose finally calls pool.release(worker).
ChatTurn(r, o) ==
    /\ apiModule = "server"
    /\ chat[r].pc = "turn"
    /\ LET c == chat[r]
           goesOn == o = "tool" /\ c.turn + 1 < max_turns
       IN  IF goesOn
              THEN /\ chat' = ChatSet(r, "turn", "none", c.worker, c.turn + 1,
                                      c.acquires, c.infers + 1, c.releases)
                   /\ UNCHANGED chatFree
              ELSE /\ chat' = ChatSet(r, "closed",
                                      IF o = "tool" THEN "exhausted" ELSE o,
                                      NoWorker, c.turn + 1, c.acquires,
                                      c.infers + 1, c.releases + 1)
                   /\ chatFree' = Append(chatFree, c.worker)
    /\ UNCHANGED <<restVars, gbnfVars, apiModule>>

\* api.py: the response is being sent and asks the generator for its first
\* item: streamer() enters its try block and calls worker.infer(req.prompt)
StreamStart(r) ==
    /\ apiModule = "legacy"
    /\ chat[r].pc = "responded"
    /\ chat' = [chat EXCEPT ![r].pc = "streaming", ![r].infers = @ + 1,
                            ![r].turn = @ + 1]
    /\ UNCHANGED <<restVars, gbnfVars, apiModule, chatFree>>

\* api.py: the generator ends: infer() is exhausted, infer() raises, or the
\* generator is closed at its yield; in each case the finally clause of
\* streamer() calls pool.release(worker)
StreamEnd(r, o) ==
    /\ apiModule = "legacy"
    /\ chat[r].pc = "streaming"
    /\ chat' = [chat EXCEPT ![r].pc = "closed", ![r].outcome = o,
                            ![r].worker = NoWorker, ![r].releases = @ + 1]
    /\ chatFree' = Append(chatFree, chat[r].worker)
    /\ UNCHANGED <<restVars, gbnfVars, apiModule>>

\* api.py: the response is dropped before its body is iterated (the client
\* is gone before the first item is asked for): a generator that was never
\* started runs none of its code, its finally clause included
StreamDropped(r) ==
    /\ apiModule = "legacy"
    /\ chat[r].pc = "responded"
    /\ chat' = [chat EXCEPT ![r].pc = "closed", ![r].outcome = "dropped"]
    /\ UNCHANGED <<restVars, gbnfVars, apiModule, chatFree>>

NextChat ==
    \/ \E r \in Requests : ChatAcquire(r)
    \/ \E r \in Requests : \E o \in {"tool", "final", "raise"} : ChatTurn(r, o)
    \/ \E r \in Requests : StreamStart(r)
    \/ \E r \in Requests : \E o \in {"normal", "raise", "aclose"} : StreamEnd(r, o)
    \/ \E r \in Requests : StreamDropped(r)

InitChat ==
    /\ InitPool
    /\ InitGbnfIdle
    /\ apiModule \in {"server", "legacy"}
    /\ workerClass = (IF apiModule = "server" THEN "llama" ELSE "legacy")
    /\ chat = ChatIdle
    /\ chatFree = InitialWorkers

SpecChat == InitChat /\ [][NextChat]_vars

(***************************************************************************)
(* spawn() and stop() of one worker                                        *)
(***************************************************************************)

\* C21: spawn() has completed (the worker is Ready) only after a line
\* holding a ready marker was observed on stderr: the line that ended the
\* ready wait came from stderr, never from stdout.
ReadyOnlyByStderrMarker ==
    spawnPc = "done" => readyBy = "stderr"

\* C22: spawn() never reports Ready for a process that went away first: a
\* ready wait ends with Ready only while the process is still running.
ReadyOnlyForLiveProcess ==
    [][(spawnPc = "waiting" /\ spawnPc' = "done") => proc'[Driven] = "running"]_vars

(***************************************************************************)
(* The readers and the queue of one worker                                 *)
(***************************************************************************)

\* the item a step has put into the queue, as a sequence: empty if the step
\* put none
PutBy(n, q) == IF n = nEnq THEN <<>> ELSE <<q[Len(q)]>>

\* C24: for each stream, only the running reader of the stream enqueues
\* items with its tag; when it enqueues the end-of-stream item it ends, a
\* reader that has ended stays ended, so the end-of-stream item is enqueued
\* at most once and nothing with that tag follows it; a reader that ends
\* by itself before the stop signal has enqueued exactly one last item, the
\* end-of-stream item (or the reader error if the read failed).
EofEnqueuedOnceAndLast ==
    [][\A s \in Streams :
          /\ \A i \in 1..Len(PutBy(nEnq', queue')) :
                LET e == PutBy(nEnq', queue')[i] IN
                e.stream = s => /\ rpc[s] = "reading"
                                /\ e.eof => rpc'[s] = "done"
          /\ rpc[s] = "done" => rpc'[s] = "done"
          /\ (rpc[s] = "reading" /\ rpc'[s] = "done"
                  /\ ~proc_control_event[Driven] /\ stopCalls' = stopCalls)
                => /\ nEnq' = nEnq + 1
                   /\ queue'[Len(queue')].stream = s
                   /\ \/ queue'[Len(queue')].eof
                      \/ IsReaderError(queue'[Len(queue')].line)
       ]_vars

\* a line of one stream, then the end-of-stream item of that stream, whose
\* reader has ended
LineThenEofOfOneStream ==
    \E s \in Streams :
       /\ rpc[s] = "done"
       /\ \E i, j \in 1..Len(queue) :
             /\ i < j
             /\ queue[i].stream = s /\ ~queue[i].eof
             /\ queue[j].stream = s /\ queue[j].eof

\* C25: whenever a stream reader terminates (EOF, read error, the stop
\* signal observed, cancellation by stop()), the control signal is set
\* afterwards, also when the reader of the other stream is still running.
ReaderEndSetsControlSignal ==
    [][\A s \in Streams :
          (rpc[s] = "reading" /\ rpc'[s] = "done") => proc_control_event'[Driven]]_vars

\* one reader has ended with the signal set while the other one still reads
OneReaderEndedOtherReading ==
    \E s, t \in Streams :
       /\ rpc[s] = "done"
       /\ rpc[t] = "reading"
       /\ proc_control_event[Driven]
       /\ stopCalls[Driven] = 0

\* C26: the queue hands the items of both readers to the consumer in the
\* order they were put: a step either puts one item at the tail, numbered
\* next, or removes items from the head, or leaves the queue alone; the
\* loop of infer() takes the item at the head; so the items in the queue
\* and the items taken are in the order of their numbers, none twice.
QueueKeepsEnqueueOrder ==
    [][/\ \/ /\ nEnq' = nEnq + 1
             /\ Len(queue') = Len(queue) + 1
             /\ SubSeq(queue', 1, Len(queue)) = queue
             /\ queue'[Len(queue')].n = nEnq'
          \/ /\ nEnq' = nEnq
             /\ \E k \in 0..Len(queue) : queue' = SubSeq(queue, k + 1, Len(queue))
       /\ (taken' # taken /\ taken' # <<>>)
             => /\ queue # <<>>
                /\ taken' = Append(taken, Head(queue))
                /\ queue' = Tail(queue)
       /\ \A i, j \in 1..Len(queue') : i < j => queue'[i].n < queue'[j].n
       /\ \A i, j \in 1..Len(taken') : i < j => taken'[i].n < taken'[j].n
       /\ \A i \in 1..Len(taken') : \A j \in 1..Len(queue') :
             taken'[i].n < queue'[j].n
      ]_vars

\* the consumer has taken a stdout line and a stderr line that were put one
\* right after the other
TookInterleavedStreams ==
    \E i \in 1..Len(taken) : \E j \in 1..Len(taken) :
       /\ j = i + 1
       /\ taken[i].stream # taken[j].stream
       /\ ~taken[i].eof /\ ~taken[j].eof
       /\ taken[j].n = taken[i].n + 1

(***************************************************************************)
(* stop() through its stages                                               *)
(***************************************************************************)

\* C23: every execution of stop() ends with the process handle cleared,
\* whether it returns without waiting or after the wait of the interrupt,
\* the terminate or the kill stage, and whichever of these stages timed out
\* or failed before.
StopEndsWithHandleCleared ==
    [][\A w \in Wids :
          (\/ stopTask[w] \in StopStages /\ stopTask'[w] = "none"
           \/ stopCalls'[w] > stopCalls[w] /\ stopTask'[w] = "none")
              => proc'[w] = "none"]_vars

\* a stop() on a running process that went through all three stages has
\* returned
StoppedAfterKillStage ==
    \E w \in Wids :
        /\ stopCalls[w] = 1
        /\ signals[w] = 3
        /\ stopTask[w] = "none"
        /\ proc[w] = "none"

(***************************************************************************)
(* The grammar of a schema                                                 *)
(***************************************************************************)

\* the token is a rule name
IsRef(tok) == tok.t = "ref"

\* the nodes of a schema with the rule names their paths give them: the
\* node itself, then the nodes below its properties (object) or below its
\* branches (oneOf), in order
RECURSIVE SubNodes(_, _)
RECURSIVE SubNodesOfProperties(_, _)
RECURSIVE SubNodesOfBranches(_, _, _)
SubNodes(name, node) ==
    <<[name |-> name, schema |-> node]>>
       \o (IF node.type = "object" THEN SubNodesOfProperties(name, node.properties)
           ELSE IF node.type \notin {"string", "number", "boolean", "nodict"}
                     /\ node.hasOneOf
              THEN SubNodesOfBranches(name, node.oneOf, 0)
           ELSE <<>>)
SubNodesOfProperties(name, properties) ==
    IF properties = <<>> THEN <<>>
    ELSE SubNodes(PropRuleName(name, properties[1].name), properties[1].schema)
            \o SubNodesOfProperties(name, Tail(properties))
SubNodesOfBranches(name, subs, i) ==
    IF subs = <<>> THEN <<>>
    ELSE SubNodes(SubRuleName(name, i), subs[1])
            \o SubNodesOfBranches(name, Tail(subs), i + 1)

\* C27: for a schema of type string with an enum, the grammar is exactly
\* one rule, named root, whose right-hand side is the alternation of the
\* quoted enum values in the order given.
EnumSchemaGivesOneRootRule ==
    (gpc = "done" /\ master_schema.type = "string" /\ master_schema.hasEnum)
       => LET enum == master_schema.enum IN
          /\ Len(gbnf_string) = 1
          /\ gbnf_string[1].name = <<"root">>
          /\ LET rhs == gbnf_string[1].rhs IN
                /\ Len(rhs) = (IF enum = <<>> THEN 0 ELSE 2 * Len(enum) - 1)
                /\ \A k \in 1..Len(enum) :
                      rhs[2 * k - 1] = [t |-> "lit", v |-> <<"q">> \o enum[k] \o <<"q">>]
                /\ \A k \in 1..(Len(enum) - 1) :
                      rhs[2 * k] = [t |-> "sym", v |-> <<"|">>]

\* the schema {"type": "string", "enum": ["a", "b"]} has been compiled
EnumOfTwoCompiled ==
    /\ gpc = "done"
    /\ master_schema.type = "string"
    /\ master_schema.hasEnum
    /\ master_schema.enum = <<<<"a">>, <<"b">>>>
    /\ Len(gbnf_string) = 1

\* C28: in a compiled schema no two nodes (properties anywhere, branches)
\* share a rule name, so every node has a rule of its own and none is
\* skipped, and the rule of each object references the rules of its
\* properties by name, each exactly once, in the order of the properties.
EveryPropertyHasItsOwnRule ==
    gpc = "done"
       => LET N == SubNodes(<<"root">>, master_schema) IN
          /\ \A i, j \in 1..Len(N) : i # j => N[i].name # N[j].name
          /\ Len(gbnf_string) = Len(N)
          /\ \A i \in 1..Len(N) :
                N[i].schema.type = "object"
                   => /\ HasRule(gbnf_string, N[i].name)
                      /\ SelectSeq(RuleOf(gbnf_string, N[i].name), IsRef)
                            = [k \in 1..Len(N[i].schema.properties) |->
                                  Ref(PropRuleName(N[i].name,
                                                   N[i].schema.properties[k].name))]

\* C29: the compiler is total: it never fails, it emits a rule for the
\* root name, and a node of unknown or unsupported shape that is the first
\* of its name has the rule null.
CompilerIsTotal ==
    /\ gpc # "raised"
    /\ gpc = "done"
          => LET N == SubNodes(<<"root">>, master_schema) IN
             /\ HasRule(gbnf_string, <<"root">>)
             /\ \A i \in 1..Len(N) :
                   (/\ N[i].schema.type \in {"integer", "absent", "nodict"}
                    /\ ~N[i].schema.hasOneOf
                    /\ ~N[i].schema.hasRef
                    /\ \A j \in 1..(i - 1) : N[j].name # N[i].name)
                      => /\ HasRule(gbnf_string, N[i].name)
                         /\ RuleOf(gbnf_string, N[i].name) = <<Fixed("null")>>

(***************************************************************************)
(* The chat handlers and the pool                                          *)
(***************************************************************************)

\* C30: every chat request calls acquire(), then infer() on the worker it
\* got, then release() of that worker exactly once, however the turn ends:
\* a request that is over has made one acquire, at least one infer and one
\* release, and no request has released more often than it acquired or
\* called infer() without a worker.
ChatReleasesWhatItAcquired ==
    \A r \in Requests :
       /\ chat[r].releases <= chat[r].acquires
       /\ chat[r].infers > 0 => chat[r].acquires = 1
       /\ chat[r].pc = "closed"
             => /\ chat[r].acquires = 1
                /\ chat[r].infers >= 1
                /\ chat[r].releases = 1

(***************************************************************************)
(* The turns of one worker                                                 *)
(***************************************************************************)

\* the items the loop of this infer() call dequeued and dropped as the echo
\* of the prompt: stdout lines that were not yielded and did not end the loop
EchoDiscarded ==
    {i \in 1..Len(taken) :
        /\ taken[i].stream = "stdout"
        /\ ~taken[i].eof
        /\ ~IsReaderError(taken[i].line)
        /\ \A j \in 1..Len(yielded) : yielded[j] # taken[i]
        /\ ~(i = Len(taken) /\ endCause = "sentinel")}

\* C31: infer() discards a stdout line as the echo of the prompt only if it
\* is the very first stdout line the call dequeued and equals the prompt;
\* a later stdout line equal to the prompt is yielded.
EchoDiscardedOnlyAsFirstStdoutLine ==
    \A i \in EchoDiscarded :
        /\ Strip(taken[i].line) = Strip(prompt)
        /\ \A j \in 1..(i - 1) : taken[j].stream # "stdout"

\* C32: no item that was put into the queue before an infer() call began is
\* yielded by that call: every fragment of the current call was put while
\* the loop of this call was running.
NoStaleEventYielded ==
    \A i \in 1..Len(yielded) : yielded[i].turn = turns

\* the lines the process prints in the runs whose end is checked: text and
\* the reverse prompt on stdout, text on stderr
LiveLines(s) ==
    IF s = "stdout" THEN {<<"x">>, <<"SENT">>} ELSE {<<"x">>}

NextTurnLive ==
    \/ TurnSpawnBegin
    \/ TurnWaitReady
    \/ TurnReadyTimeout
    \/ TurnSpawnEndLegacy
    \/ \E s \in Streams : \E l \in LiveLines(s) : ReaderLine(s, l)
    \/ \E s \in Streams : ReaderEof(s)
    \/ \E s \in Streams : ReaderError(s)
    \/ \E p \in HttpPrompts : InferCall(p)
    \/ InferStep
    \/ InferTimeout
    \/ TurnStop
    \/ ShutStopEnd(Driven)
    \/ ProcExit(Driven)

\* the scheduling of one turn: the task that consumes infer() is resumed
\* when queue.get() has an item, and the timer of wait_for() fires when the
\* queue stays empty
SpecTurnLive ==
    /\ Init
    /\ [][NextTurnLive]_vars
    /\ WF_vars(InferStep)
    /\ WF_vars(InferTimeout)

\* C33: every infer() turn that has entered its loop eventually ends: when
\* the process emits no sentinel, no EOF and no error, the turn ends once
\* the queue has stayed empty for the silence timeout.
TurnEventuallyEnds ==
    (ipc = "loop") ~> (ipc = "ended")

\* a turn that got a fragment and neither sentinel nor EOF nor error has
\* ended by the silence timeout, the process still running
TurnEndedBySilence ==
    /\ ipc = "ended"
    /\ endCause = "timeout"
    /\ yielded # <<>>
    /\ proc[Driven] = "running"
    /\ \A i \in 1..Len(taken) :
          ~taken[i].eof /\ ~IsReaderError(taken[i].line)

\* C34: a turn of a spawned worker that has ended by the sentinel or by the
\* silence timeout, with the process still running, no stop() and both
\* readers reading,
\* leaves the control signal unset, and release() finds the worker healthy
\* (it puts this worker back instead of stopping or replacing it).
NormalTurnEndLeavesWorkerHealthy ==
    (/\ spawnPc = "done"
     /\ ipc = "ended"
     /\ endCause \in {"sentinel", "timeout"}
     /\ proc[Driven] = "running"
     /\ stopCalls[Driven] = 0
     /\ \A s \in Streams : rpc[s] = "reading")
        => /\ ~proc_control_event[Driven]
           /\ ReleaseObserves(Driven) = "healthy"

\* C35: while the process is running and stop() has not been called, both
\* stream readers keep running across turns: when an infer() call that
\* follows a turn ended by the sentinel or by the silence timeout enters
\* its loop, the stdout and the stderr reader are reading.
ReadersRunAcrossTurns ==
    [][(/\ spawnPc = "done"
        /\ ipc = "ended"
        /\ endCause \in {"sentinel", "timeout"}
        /\ turns' = turns + 1
        /\ ipc' = "loop"
        /\ proc[Driven] = "running"
        /\ stopCalls[Driven] = 0)
        => \A s \in Streams : rpc[s] = "reading"]_vars

\* C38: a spawn() that failed after the process was launched (ready
\* timeout, premature exit, EOF) leaves the worker stopped: its process is
\* not running, neither reader is reading and the process handle is cleared.
FailedSpawnLeavesNoProcess ==
    spawnPc = "failed"
        => /\ proc[Driven] = "none"
           /\ \A s \in Streams : rpc[s] # "reading"

(***************************************************************************)
(* The pool around shutdown() and misuse of release()                      *)
(***************************************************************************)

\* C36: once shutdown() has returned (and start() was not called again),
\* the pool stays empty: no step of a release(), whether it was in flight
\* during shutdown() or was called afterwards by a caller that still held a
\* worker, adds a worker to free or busy or starts a process.
ReleaseAfterShutdownAddsNothing ==
    [][\A c \in Callers :
          (/\ shutdowns >= 1
           /\ ~started
           /\ mainPc \notin {"starting", "failed"}
           /\ cpc[c] \in {"holding", "rel_stop", "rel_spawn"}
           /\ cpc'[c] # cpc[c])
              => /\ free' = free
                 /\ busy' = busy
                 /\ \A w \in Wids : proc'[w] = "running" => proc[w] = "running"]_vars

\* C40: acquire() never returns a worker on which stop() has been called:
\* a caller that enters or waits in acquire() while shutdown() is stopping
\* the workers does not get a stopped worker.
AcquireNeverReturnsStoppedWorker ==
    [][\A c \in Callers :
          (cpc[c] # "holding" /\ cpc'[c] = "holding")
              => stopCalls'[held'[c]] = 0]_vars

\* longest free queue for which a release() of a worker that is not in busy
\* is still followed
MaxFreeLen == 3

\* release(w) called by a caller that holds nothing, on a worker w that is
\* not in busy: one it released before, or one the pool has in free.  The
\* llama class raises at line 111.  Otherwise a healthy w skips
\* `if w in self.busy` and is put into free; an unstable w is stopped and
\* replaced as in any release(), w being the argument the call works on.
ReleaseNotBusy(c, w) ==
    /\ startReturned
    /\ cpc[c] = "idle"
    /\ w \in 1..created
    /\ w \notin busy
    /\ \A d \in Callers : newW[d] # w
    /\ Len(free) < MaxFreeLen
    /\ IF workerClass = "llama"
          THEN UNCHANGED <<free, getters, busy, created, workerVars, cpc, held,
                           newW, shutRun>>
          ELSE IF ~Unstable(w)
                  THEN /\ FreePut(w, cpc)
                       /\ shutRun' = 0
                       /\ UNCHANGED <<busy, created, workerVars, held, newW>>
                  ELSE /\ created + StopsInRelease < NumWorkers + MaxRespawns
                       /\ StopFirst({w})
                       /\ held' = [held EXCEPT ![c] = w]
                       /\ IF StopSuspends(w)
                             THEN /\ cpc' = [cpc EXCEPT ![c] = "rel_stop"]
                                  /\ UNCHANGED <<created, newW>>
                             ELSE Construct(c)
                       /\ UNCHANGED <<free, getters, busy, shutRun>>
    /\ UNCHANGED <<workerClass, restarted, turnVars, gbnfVars, chatVars, workers, started, mainPc,
                   spawning, stopTask, startReturned, shutdownCalled,
                   shutdowns, replacement>>

\* the pool with callers that also release workers they do not hold
NextMisuse ==
    \/ StartCall
    \/ \E w \in Wids : SpawnDone(w)
    \/ \E w \in Wids : SpawnFail(w)
    \/ StartReturn
    \/ ShutdownCall
    \/ ShutdownStops
    \/ \E w \in Wids : ShutStopEnd(w)
    \/ ShutdownFinish
    \/ \E c \in Callers : Acquire(c)
    \/ \E c \in Callers : AcquireResume(c)
    \/ \E w \in Wids : ProcExit(w)
    \/ \E c \in Callers : Infer(c)
    \/ \E c \in Callers : ReleaseRaise(c)
    \/ \E c \in Callers : ReleaseHealthy(c)
    \/ \E c \in Callers : ReleaseUnstable(c)
    \/ \E c \in Callers : ReleaseStopEnd(c)
    \/ \E c \in Callers : ReleaseSpawnDone(c)
    \/ \E c \in Callers : ReleaseSpawnFail(c)
    \/ \E c \in Callers : \E w \in Wids : ReleaseNotBusy(c, w)

SpecMisuse == Init /\ [][NextMisuse]_vars

\* C37: release(w) of a worker that is not in busy (released before, or
\* never handed out) leaves free and busy as they are, so that no worker is
\* in free more than once.
ReleaseOfNotBusyChangesNothing ==
    [][\A c \in Callers : \A w \in Wids :
          ReleaseNotBusy(c, w)
              => /\ free' = free
                 /\ busy' = busy
                 /\ \A i, j \in 1..Len(free') : free'[i] = free'[j] => i = j]_vars

\* the scheduling of the pool's callers: a getter whose future was resolved
\* is resumed, and a release() that awaits w.stop() or new_w.spawn() is
\* resumed when the awaited call is over
SpecLive ==
    /\ Spec
    /\ \A c \in Callers :
          /\ WF_vars(AcquireResume(c))
          /\ WF_vars(ReleaseStopEnd(c))
          /\ WF_vars(ReleaseSpawnDone(c) \/ ReleaseSpawnFail(c))

\* C39: on a started pool every acquire() call eventually returns a worker,
\* provided every caller that holds a worker eventually calls release() on
\* it, also when released workers have died and are replaced: a caller
\* waiting in acquire() gets a worker unless shutdown() is called.
AcquireEventuallyReturns ==
    (\A d \in Callers : []<>(cpc[d] # "holding"))
        => \A c \in Callers :
              (cpc[c] \in {"waiting", "woken"})
                  ~> (cpc[c] = "holding" \/ shutdownCalled)

====
